---------------------------- MODULE Spec2Model ----------------------------
(***************************************************************************)
(* Model of src/main.c: an n-gram / Jaccard similarity tool.               *)
(*                                                                         *)
(* A byte is an integer 0..255.  A C buffer is a sequence of bytes that    *)
(* holds a terminating zero byte; the C string in it is the prefix before  *)
(* the first zero.  A hash table is a function from the indices of its     *)
(* non-empty buckets to the chain of nodes of that bucket, head first.     *)
(* A float result is kept as the exact fraction <<num, den>> in lowest     *)
(* terms (all operands are below 2^24, so the int -> float conversions     *)
(* are exact); <<0, 0>> is NaN and <<1, 0>> is +inf.                       *)
(***************************************************************************)
EXTENDS Integers, Sequences, FiniteSets, TLC

\* ---------------------------------------------------------------- constants
MAX_FILE_SIZE == 1000000
N_GRAM == 3
HASH_TABLE_SIZE == 100003

\* ---------------------------------------------------------------- bounds
\* longest normalized original / plagiarized text of the similarity specification
MaxLen == 5
MaxLenB == 4
\* longest raw original buffer / raw plagiarized buffer of the normalization specification
MaxRawLen == 3
MaxRawLenB == 1
\* longest file content and largest argc of the whole-program specification
MaxFileLen == 3
MaxArgc == 5
\* how far around MAX_FILE_SIZE (and around 0) the file sizes of the read specification go
ReadSlack == 3

\* bytes of the normalized texts: ' ', 'b', 'd'  ("bb" and "d " hash alike under DJB2)
SimAlphabet == {32, 98, 100}
\* raw bytes of the original buffer: NUL, '!', '0', 'A', 'Z', 'a', 0x80, 0xFF
RawAlphabet == {0, 33, 48, 65, 90, 97, 128, 255}
\* raw bytes of the plagiarized buffer: NUL, ' ', '@', '['
RawAlphabetB == {0, 32, 64, 91}
\* bytes of the files of the whole-program specification: '.', 'B', 'b'
FileAlphabet == {46, 66, 98}

VARIABLES
    pc,                \* position in main
    argc,              \* argument count
    origFile,          \* argv[1] on disk: [ok, size, data]
    plagFile,          \* argv[2] on disk: [ok, size, data]
    outCreatable,      \* whether fopen(argv[3], "w") succeeds
    original_text,     \* char original_text[MAX_FILE_SIZE]
    plagiarized_text,  \* char plagiarized_text[MAX_FILE_SIZE]
    original_len,      \* size_t original_len
    plagiarized_len,   \* size_t plagiarized_len
    ht_original,       \* HashTable *ht_original
    ht_plagiarized,    \* HashTable *ht_plagiarized
    intersection,      \* int intersection of calculate_jaccard_similarity
    union_total,       \* int union_total of calculate_jaccard_similarity
    similarity,        \* float similarity
    outFile,           \* argv[3] on disk: "untouched", "created", or the written score
    exitCode,          \* -1 while running, else the return value of main
    created,           \* TRUE once the two tables have been allocated
    freed,             \* number of free_hash_table calls per table
    useAfterFree       \* TRUE once a table has been read or freed while not live

vars == <<pc, argc, origFile, plagFile, outCreatable, original_text, plagiarized_text,
          original_len, plagiarized_len, ht_original, ht_plagiarized, intersection,
          union_total, similarity, outFile, exitCode, created, freed, useAfterFree>>

\* ---------------------------------------------------------------- helpers
Min(a, b) == IF a < b THEN a ELSE b

Max(a, b) == IF a > b THEN a ELSE b

RECURSIVE Gcd(_, _)
Gcd(a, b) == IF b = 0 THEN a ELSE Gcd(b, a % b)

\* all byte sequences over alphabet of length 0..n
SeqsUpTo(alphabet, n) == UNION {[1..k -> alphabet] : k \in 0..n}

\* strlen: number of bytes before the first zero byte
strlen(str) == CHOOSE n \in 0..(Len(str) - 1) :
                   str[n + 1] = 0 /\ \A k \in 1..n : str[k] # 0

\* the C string held in a buffer
CStr(str) == SubSeq(str, 1, strlen(str))

\* strcmp(a, b) == 0
StrEq(a, b) == CStr(a) = CStr(b)

\* value of a byte read through a (signed) char
CharValue(b) == IF b >= 128 THEN b - 256 ELSE b

\* isalnum in the "C" locale
isalnum(c) == (c >= 48 /\ c <= 57) \/ (c >= 65 /\ c <= 90) \/ (c >= 97 /\ c <= 122)

\* ---------------------------------------------------------------- normalizer
KeepByte(c) == isalnum(c) \/ c = 32 \/ c >= 128

remove_punctuation(str) ==
    LET kept == SelectSeq(CStr(str), KeepByte)
    IN  kept \o <<0>> \o SubSeq(str, Len(kept) + 2, Len(str))

to_lower_case(str) ==
    LET n == strlen(str)
    IN  [i \in 1..Len(str) |->
            IF i <= n /\ str[i] >= 65 /\ str[i] <= 90 THEN str[i] + 32 ELSE str[i]]

\* ---------------------------------------------------------------- hash table
create_hash_table == [i \in {} |-> <<>>]

Bucket(ht, i) == IF i \in DOMAIN ht THEN ht[i] ELSE <<>>

RECURSIVE DJB2(_, _)
DJB2(s, hash) == IF s = <<>> THEN hash
                 ELSE DJB2(Tail(s), hash * 33 + CharValue(Head(s)))

\* 5381 * 33^3 + ... stays below 2^31 for the strings of at most N_GRAM bytes hashed here
hash_function(str, table_size) == DJB2(CStr(str), 5381) % table_size

\* strncpy(dst, src, n) followed by dst[n] = '\0'
strncpy(src, n) ==
    LET l == Min(strlen(src), n)
    IN  [i \in 1..(n + 1) |-> IF i <= l THEN src[i] ELSE 0]

\* mutant of FindNode: the head of the bucket is taken without comparing the strings
FindNodeNoCompare(chain, gram) == IF Len(chain) > 0 THEN 1 ELSE 0

\* position of the first node of chain whose gram equals gram, 0 when there is none
FindNode(chain, gram) ==
    IF \E k \in 1..Len(chain) : StrEq(chain[k].gram, gram)
    THEN CHOOSE k \in 1..Len(chain) :
             StrEq(chain[k].gram, gram) /\ \A j \in 1..(k - 1) : ~StrEq(chain[j].gram, gram)
    ELSE 0

SetBucket(ht, index, chain) ==
    [i \in DOMAIN ht \cup {index} |-> IF i = index THEN chain ELSE ht[i]]

addhash(ht, gram) ==
    LET index == hash_function(gram, HASH_TABLE_SIZE)
        chain == Bucket(ht, index)
        k     == FindNode(chain, gram)
    IN  IF k # 0
        THEN SetBucket(ht, index, [chain EXCEPT ![k].count = @ + 1])
        ELSE SetBucket(ht, index, <<[gram |-> strncpy(gram, N_GRAM), count |-> 1]>> \o chain)

\* mutant of GenerateFrom: the window slides up to the last byte of the text
RECURSIVE GenerateFromPastEnd(_, _, _, _)
GenerateFromPastEnd(text, len, i, ht) ==
    IF i < len
    THEN GenerateFromPastEnd(text, len, i + 1,
                             addhash(ht, strncpy(SubSeq(text, i + 1, Len(text)), N_GRAM)))
    ELSE ht

RECURSIVE GenerateFrom(_, _, _, _)
GenerateFrom(text, len, i, ht) ==
    IF i <= len - N_GRAM
    THEN GenerateFrom(text, len, i + 1,
                      addhash(ht, strncpy(SubSeq(text, i + 1, Len(text)), N_GRAM)))
    ELSE ht

generate_ngrams(text, ht) == GenerateFrom(text, strlen(text), 0, ht)

\* the nodes of a table in the order the loops over the buckets visit them
RECURSIVE NodesFrom(_, _)
NodesFrom(ht, todo) ==
    IF todo = {} THEN <<>>
    ELSE LET i == CHOOSE m \in todo : \A o \in todo : m <= o
         IN  ht[i] \o NodesFrom(ht, todo \ {i})

Nodes(ht) == NodesFrom(ht, DOMAIN ht)

\* ---------------------------------------------------------------- similarity
\* mutants of NodeMatch: a shared key counts once; a shared key counts as in the first table
NodeMatchPresence(current, ht2) ==
    LET chain == Bucket(ht2, hash_function(current.gram, HASH_TABLE_SIZE))
        k     == FindNode(chain, current.gram)
    IN  IF k # 0 THEN 1 ELSE 0

NodeMatchFirstCount(current, ht2) ==
    LET chain == Bucket(ht2, hash_function(current.gram, HASH_TABLE_SIZE))
        k     == FindNode(chain, current.gram)
    IN  IF k # 0 THEN current.count ELSE 0

\* what one node of the first table adds to the intersection
NodeMatch(current, ht2) ==
    LET chain == Bucket(ht2, hash_function(current.gram, HASH_TABLE_SIZE))
        k     == FindNode(chain, current.gram)
    IN  IF k # 0 THEN Min(current.count, chain[k].count) ELSE 0

RECURSIVE SumMatches(_, _)
SumMatches(nodes, ht2) ==
    IF nodes = <<>> THEN 0
    ELSE NodeMatch(Head(nodes), ht2) + SumMatches(Tail(nodes), ht2)

get_intersection_count(ht1, ht2) == SumMatches(Nodes(ht1), ht2)

RECURSIVE SumCounts(_)
SumCounts(nodes) == IF nodes = <<>> THEN 0 ELSE Head(nodes).count + SumCounts(Tail(nodes))

\* mutant of get_union_count: the second loop walks the first table again
get_union_count_first_twice(ht1, ht2) == SumCounts(Nodes(ht1)) + SumCounts(Nodes(ht1))

get_union_count(ht1, ht2) == SumCounts(Nodes(ht1)) + SumCounts(Nodes(ht2))

\* (float)a / b as an exact fraction in lowest terms
FloatDiv(a, b) ==
    LET g == Gcd(a, b)
    IN  IF g = 0 THEN <<0, 0>> ELSE <<a \div g, b \div g>>

\* mutant of calculate_jaccard_similarity: no test of union_total against 0
calculate_jaccard_similarity_unguarded(ht1, ht2) ==
    LET i == get_intersection_count(ht1, ht2)
        u == get_union_count(ht1, ht2) - i
    IN  [intersection |-> i, union_total |-> u, result |-> FloatDiv(i, u)]

calculate_jaccard_similarity(ht1, ht2) ==
    LET i == get_intersection_count(ht1, ht2)
        u == get_union_count(ht1, ht2) - i
    IN  [intersection |-> i,
         union_total  |-> u,
         result       |-> IF u = 0 THEN <<0, 1>> ELSE FloatDiv(i, u)]

\* ---------------------------------------------------------------- files
\* mutant of FreadCount: the read asks for MAX_FILE_SIZE bytes
FreadCountWholeBuffer(size) == Min(size, MAX_FILE_SIZE)

\* number of bytes fread(buf, 1, MAX_FILE_SIZE - 1, file) returns for a file of that size
FreadCount(size) == Min(size, MAX_FILE_SIZE - 1)

\* the bytes fread stores; data spells out the content of a file (only the sizes are
\* spelled out for the files of the read specification)
FreadBytes(file, n) == SubSeq(file.data, 1, Min(n, Len(file.data)))

File(ok, data) == [ok |-> ok, size |-> Len(data), data |-> data]

NoFile == [ok |-> FALSE, size |-> 0, data |-> <<>>]

NoOutput == [state |-> "untouched", score |-> <<0, 1>>]

\* ---------------------------------------------------------------- main
Return(code) == pc' = "exit" /\ exitCode' = code

ArgCountError ==
    /\ pc = "args" /\ argc # 4
    /\ Return(1)
    /\ UNCHANGED <<argc, origFile, plagFile, outCreatable, original_text, plagiarized_text,
                   original_len, plagiarized_len, ht_original, ht_plagiarized, intersection,
                   union_total, similarity, outFile, created, freed, useAfterFree>>

ArgCountOk ==
    /\ pc = "args" /\ argc = 4
    /\ pc' = "open_original"
    /\ UNCHANGED <<argc, origFile, plagFile, outCreatable, original_text, plagiarized_text,
                   original_len, plagiarized_len, ht_original, ht_plagiarized, intersection,
                   union_total, similarity, outFile, exitCode, created, freed, useAfterFree>>

OpenOriginalFail ==
    /\ pc = "open_original" /\ ~origFile.ok
    /\ Return(1)
    /\ UNCHANGED <<argc, origFile, plagFile, outCreatable, original_text, plagiarized_text,
                   original_len, plagiarized_len, ht_original, ht_plagiarized, intersection,
                   union_total, similarity, outFile, created, freed, useAfterFree>>

OpenOriginalOk ==
    /\ pc = "open_original" /\ origFile.ok
    /\ pc' = "read_original"
    /\ UNCHANGED <<argc, origFile, plagFile, outCreatable, original_text, plagiarized_text,
                   original_len, plagiarized_len, ht_original, ht_plagiarized, intersection,
                   union_total, similarity, outFile, exitCode, created, freed, useAfterFree>>

ReadOriginal ==
    /\ pc = "read_original"
    /\ original_len' = FreadCount(origFile.size)
    /\ original_text' = FreadBytes(origFile, original_len') \o <<0>>
    /\ pc' = "open_plagiarized"
    /\ UNCHANGED <<argc, origFile, plagFile, outCreatable, plagiarized_text,
                   plagiarized_len, ht_original, ht_plagiarized, intersection,
                   union_total, similarity, outFile, exitCode, created, freed, useAfterFree>>

\* mutant of OpenPlagiarizedFail: the failure returns 0
OpenPlagiarizedFailReturns0 ==
    /\ pc = "open_plagiarized" /\ ~plagFile.ok
    /\ Return(0)
    /\ UNCHANGED <<argc, origFile, plagFile, outCreatable, original_text, plagiarized_text,
                   original_len, plagiarized_len, ht_original, ht_plagiarized, intersection,
                   union_total, similarity, outFile, created, freed, useAfterFree>>

OpenPlagiarizedFail ==
    /\ pc = "open_plagiarized" /\ ~plagFile.ok
    /\ Return(1)
    /\ UNCHANGED <<argc, origFile, plagFile, outCreatable, original_text, plagiarized_text,
                   original_len, plagiarized_len, ht_original, ht_plagiarized, intersection,
                   union_total, similarity, outFile, created, freed, useAfterFree>>

OpenPlagiarizedOk ==
    /\ pc = "open_plagiarized" /\ plagFile.ok
    /\ pc' = "read_plagiarized"
    /\ UNCHANGED <<argc, origFile, plagFile, outCreatable, original_text, plagiarized_text,
                   original_len, plagiarized_len, ht_original, ht_plagiarized, intersection,
                   union_total, similarity, outFile, exitCode, created, freed, useAfterFree>>

ReadPlagiarized ==
    /\ pc = "read_plagiarized"
    /\ plagiarized_len' = FreadCount(plagFile.size)
    /\ plagiarized_text' = FreadBytes(plagFile, plagiarized_len') \o <<0>>
    /\ pc' = "to_lower_original"
    /\ UNCHANGED <<argc, origFile, plagFile, outCreatable, original_text,
                   original_len, ht_original, ht_plagiarized, intersection,
                   union_total, similarity, outFile, exitCode, created, freed, useAfterFree>>

ToLowerOriginal ==
    /\ pc = "to_lower_original"
    /\ original_text' = to_lower_case(original_text)
    /\ pc' = "to_lower_plagiarized"
    /\ UNCHANGED <<argc, origFile, plagFile, outCreatable, plagiarized_text,
                   original_len, plagiarized_len, ht_original, ht_plagiarized, intersection,
                   union_total, similarity, outFile, exitCode, created, freed, useAfterFree>>

ToLowerPlagiarized ==
    /\ pc = "to_lower_plagiarized"
    /\ plagiarized_text' = to_lower_case(plagiarized_text)
    /\ pc' = "remove_original"
    /\ UNCHANGED <<argc, origFile, plagFile, outCreatable, original_text,
                   original_len, plagiarized_len, ht_original, ht_plagiarized, intersection,
                   union_total, similarity, outFile, exitCode, created, freed, useAfterFree>>

RemovePunctuationOriginal ==
    /\ pc = "remove_original"
    /\ original_text' = remove_punctuation(original_text)
    /\ pc' = "remove_plagiarized"
    /\ UNCHANGED <<argc, origFile, plagFile, outCreatable, plagiarized_text,
                   original_len, plagiarized_len, ht_original, ht_plagiarized, intersection,
                   union_total, similarity, outFile, exitCode, created, freed, useAfterFree>>

RemovePunctuationPlagiarized ==
    /\ pc = "remove_plagiarized"
    /\ plagiarized_text' = remove_punctuation(plagiarized_text)
    /\ pc' = "create_tables"
    /\ UNCHANGED <<argc, origFile, plagFile, outCreatable, original_text,
                   original_len, plagiarized_len, ht_original, ht_plagiarized, intersection,
                   union_total, similarity, outFile, exitCode, created, freed, useAfterFree>>

\* a table is read, written or freed while it is not a live allocation
NotLive(t) == ~created \/ freed[t] > 0

CreateTables ==
    /\ pc = "create_tables"
    /\ ht_original' = create_hash_table
    /\ ht_plagiarized' = create_hash_table
    /\ created' = TRUE
    /\ pc' = "generate_original"
    /\ UNCHANGED <<argc, origFile, plagFile, outCreatable, original_text, plagiarized_text,
                   original_len, plagiarized_len, intersection,
                   union_total, similarity, outFile, exitCode, freed, useAfterFree>>

GenerateOriginal ==
    /\ pc = "generate_original"
    /\ ht_original' = generate_ngrams(original_text, ht_original)
    /\ useAfterFree' = (useAfterFree \/ NotLive("original"))
    /\ pc' = "generate_plagiarized"
    /\ UNCHANGED <<argc, origFile, plagFile, outCreatable, original_text, plagiarized_text,
                   original_len, plagiarized_len, ht_plagiarized, intersection,
                   union_total, similarity, outFile, exitCode, created, freed>>

GeneratePlagiarized ==
    /\ pc = "generate_plagiarized"
    /\ ht_plagiarized' = generate_ngrams(plagiarized_text, ht_plagiarized)
    /\ useAfterFree' = (useAfterFree \/ NotLive("plagiarized"))
    /\ pc' = "calculate"
    /\ UNCHANGED <<argc, origFile, plagFile, outCreatable, original_text, plagiarized_text,
                   original_len, plagiarized_len, ht_original, intersection,
                   union_total, similarity, outFile, exitCode, created, freed>>

CalculateSimilarity ==
    /\ pc = "calculate"
    /\ LET r == calculate_jaccard_similarity(ht_original, ht_plagiarized)
       IN  /\ intersection' = r.intersection
           /\ union_total' = r.union_total
           /\ similarity' = r.result
    /\ useAfterFree' = (useAfterFree \/ NotLive("original") \/ NotLive("plagiarized"))
    /\ pc' = "open_output"
    /\ UNCHANGED <<argc, origFile, plagFile, outCreatable, original_text, plagiarized_text,
                   original_len, plagiarized_len, ht_original, ht_plagiarized,
                   outFile, exitCode, created, freed>>

\* free_hash_table(ht) on the table named t, as seen in the allocation bookkeeping
FreeTable(fr, t) == [fr EXCEPT ![t] = @ + 1]

\* mutant of OpenOutputFail: the failure returns without freeing the tables
OpenOutputFailLeaks ==
    /\ pc = "open_output" /\ ~outCreatable
    /\ Return(1)
    /\ UNCHANGED <<argc, origFile, plagFile, outCreatable, original_text, plagiarized_text,
                   original_len, plagiarized_len, ht_original, ht_plagiarized, intersection,
                   union_total, similarity, outFile, created, freed, useAfterFree>>

OpenOutputFail ==
    /\ pc = "open_output" /\ ~outCreatable
    /\ freed' = FreeTable(FreeTable(freed, "original"), "plagiarized")
    /\ useAfterFree' = (useAfterFree \/ NotLive("original") \/ NotLive("plagiarized"))
    /\ Return(1)
    /\ UNCHANGED <<argc, origFile, plagFile, outCreatable, original_text, plagiarized_text,
                   original_len, plagiarized_len, ht_original, ht_plagiarized, intersection,
                   union_total, similarity, outFile, created>>

OpenOutputOk ==
    /\ pc = "open_output" /\ outCreatable
    /\ outFile' = [state |-> "created", score |-> <<0, 1>>]
    /\ pc' = "write_output"
    /\ UNCHANGED <<argc, origFile, plagFile, outCreatable, original_text, plagiarized_text,
                   original_len, plagiarized_len, ht_original, ht_plagiarized, intersection,
                   union_total, similarity, exitCode, created, freed, useAfterFree>>

WriteOutput ==
    /\ pc = "write_output"
    /\ outFile' = [state |-> "written", score |-> similarity]
    /\ pc' = "free_original"
    /\ UNCHANGED <<argc, origFile, plagFile, outCreatable, original_text, plagiarized_text,
                   original_len, plagiarized_len, ht_original, ht_plagiarized, intersection,
                   union_total, similarity, exitCode, created, freed, useAfterFree>>

FreeOriginal ==
    /\ pc = "free_original"
    /\ freed' = FreeTable(freed, "original")
    /\ useAfterFree' = (useAfterFree \/ NotLive("original"))
    /\ pc' = "free_plagiarized"
    /\ UNCHANGED <<argc, origFile, plagFile, outCreatable, original_text, plagiarized_text,
                   original_len, plagiarized_len, ht_original, ht_plagiarized, intersection,
                   union_total, similarity, outFile, exitCode, created>>

FreePlagiarized ==
    /\ pc = "free_plagiarized"
    /\ freed' = FreeTable(freed, "plagiarized")
    /\ useAfterFree' = (useAfterFree \/ NotLive("plagiarized"))
    /\ pc' = "return"
    /\ UNCHANGED <<argc, origFile, plagFile, outCreatable, original_text, plagiarized_text,
                   original_len, plagiarized_len, ht_original, ht_plagiarized, intersection,
                   union_total, similarity, outFile, exitCode, created>>

ReturnSuccess ==
    /\ pc = "return"
    /\ Return(0)
    /\ UNCHANGED <<argc, origFile, plagFile, outCreatable, original_text, plagiarized_text,
                   original_len, plagiarized_len, ht_original, ht_plagiarized, intersection,
                   union_total, similarity, outFile, created, freed, useAfterFree>>

\* ---------------------------------------------------------------- specifications
\* the locals of main before any statement has assigned them
Locals ==
    /\ original_text = <<>> /\ plagiarized_text = <<>>
    /\ original_len = 0 /\ plagiarized_len = 0
    /\ ht_original = create_hash_table /\ ht_plagiarized = create_hash_table
    /\ intersection = 0 /\ union_total = 0 /\ similarity = <<0, 1>>
    /\ outFile = NoOutput /\ exitCode = -1
    /\ created = FALSE
    /\ freed = [t \in {"original", "plagiarized"} |-> 0]
    /\ useAfterFree = FALSE

Files == {NoFile} \cup {File(TRUE, d) : d \in SeqsUpTo(FileAlphabet, MaxFileLen)}

\* the whole program, from the entry of main
Init ==
    /\ pc = "args"
    /\ argc \in 1..MaxArgc
    /\ origFile \in Files
    /\ plagFile \in Files
    /\ outCreatable \in BOOLEAN
    /\ Locals

Next ==
    \/ ArgCountError \/ ArgCountOk
    \/ OpenOriginalFail \/ OpenOriginalOk \/ ReadOriginal
    \/ OpenPlagiarizedFail \/ OpenPlagiarizedOk \/ ReadPlagiarized
    \/ ToLowerOriginal \/ ToLowerPlagiarized
    \/ RemovePunctuationOriginal \/ RemovePunctuationPlagiarized
    \/ CreateTables \/ GenerateOriginal \/ GeneratePlagiarized \/ CalculateSimilarity
    \/ OpenOutputFail \/ OpenOutputOk \/ WriteOutput
    \/ FreeOriginal \/ FreePlagiarized \/ ReturnSuccess

Spec == Init /\ [][Next]_vars

\* the similarity engine alone: main just after normalization, for every pair of
\* normalized texts

SimInit ==
    /\ pc = "create_tables"
    /\ argc = 4
    /\ origFile \in {File(TRUE, d) : d \in SeqsUpTo(SimAlphabet, MaxLen)}
    /\ plagFile \in {File(TRUE, d) : d \in SeqsUpTo(SimAlphabet, MaxLenB)}
    /\ outCreatable = TRUE
    /\ original_text = origFile.data \o <<0>>
    /\ plagiarized_text = plagFile.data \o <<0>>
    /\ original_len = origFile.size
    /\ plagiarized_len = plagFile.size
    /\ ht_original = create_hash_table /\ ht_plagiarized = create_hash_table
    /\ intersection = 0 /\ union_total = 0 /\ similarity = <<0, 1>>
    /\ outFile = NoOutput /\ exitCode = -1
    /\ created = FALSE
    /\ freed = [t \in {"original", "plagiarized"} |-> 0]
    /\ useAfterFree = FALSE

SimNext == CreateTables \/ GenerateOriginal \/ GeneratePlagiarized \/ CalculateSimilarity

SpecSim == SimInit /\ [][SimNext]_vars

\* the normalizer alone: main just after the two reads, for raw buffers
NormInit ==
    /\ pc = "to_lower_original"
    /\ argc = 4
    /\ origFile \in {File(TRUE, d) : d \in SeqsUpTo(RawAlphabet, MaxRawLen)}
    /\ plagFile \in {File(TRUE, d) : d \in SeqsUpTo(RawAlphabetB, MaxRawLenB)}
    /\ outCreatable = TRUE
    /\ original_text = origFile.data \o <<0>>
    /\ plagiarized_text = plagFile.data \o <<0>>
    /\ original_len = origFile.size
    /\ plagiarized_len = plagFile.size
    /\ ht_original = create_hash_table /\ ht_plagiarized = create_hash_table
    /\ intersection = 0 /\ union_total = 0 /\ similarity = <<0, 1>>
    /\ outFile = NoOutput /\ exitCode = -1
    /\ created = FALSE
    /\ freed = [t \in {"original", "plagiarized"} |-> 0]
    /\ useAfterFree = FALSE

NormNext == \/ ToLowerOriginal \/ ToLowerPlagiarized
            \/ RemovePunctuationOriginal \/ RemovePunctuationPlagiarized

SpecNorm == NormInit /\ [][NormNext]_vars

\* the two reads alone, for files whose size is near 0 or near MAX_FILE_SIZE; only the
\* size of these files is spelled out
ReadSizes == (0..ReadSlack) \cup ((MAX_FILE_SIZE - ReadSlack)..(MAX_FILE_SIZE + ReadSlack))

ReadInit ==
    /\ pc = "open_original"
    /\ argc = 4
    /\ origFile \in {[ok |-> TRUE, size |-> n, data |-> <<>>] : n \in ReadSizes}
    /\ plagFile \in {[ok |-> TRUE, size |-> n, data |-> <<>>] : n \in ReadSizes}
    /\ outCreatable = TRUE
    /\ Locals

ReadNext == OpenOriginalOk \/ ReadOriginal \/ OpenPlagiarizedOk \/ ReadPlagiarized

SpecRead == ReadInit /\ [][ReadNext]_vars

\* ---------------------------------------------------------------- reference notions
\* positions of main at which both tables are built and still live
TablesBuilt == pc \in {"calculate", "open_output", "write_output", "free_original"}

\* positions of main at which the similarity has been computed and the tables are live
Calculated == pc \in {"open_output", "write_output", "free_original"}

\* the entries of a table as a set of <<bucket, position>> pairs
Entries(ht) == UNION {{<<i, k>> : k \in 1..Len(ht[i])} : i \in DOMAIN ht}

EntryNode(ht, e) == ht[e[1]][e[2]]

RECURSIVE SumOverEntries(_, _)
SumOverEntries(ht, es) ==
    IF es = {} THEN 0
    ELSE LET e == CHOOSE x \in es : TRUE
         IN  EntryNode(ht, e).count + SumOverEntries(ht, es \ {e})

\* total(X): the sum of all counts in X
Total(ht) == SumOverEntries(ht, Entries(ht))

\* the shingle keys of a table, and the count a table gives to a key
Keys(ht) == {CStr(EntryNode(ht, e).gram) : e \in Entries(ht)}

CountOf(ht, key) ==
    SumOverEntries(ht, {e \in Entries(ht) : CStr(EntryNode(ht, e).gram) = key})

\* the window offsets of a text and its windows
Offsets(text) == 0..(Len(text) - N_GRAM)

Window(text, i) == SubSeq(text, i + 1, i + N_GRAM)

Windows(text) == {Window(text, i) : i \in Offsets(text)}

Occurrences(text, w) == Cardinality({i \in Offsets(text) : Window(text, i) = w})

RECURSIVE SumOfMins(_, _, _)
SumOfMins(keys, htA, htB) ==
    IF keys = {} THEN 0
    ELSE LET k == CHOOSE x \in keys : TRUE
         IN  Min(CountOf(htA, k), CountOf(htB, k)) + SumOfMins(keys \ {k}, htA, htB)

InUnitRange(f) == f[2] > 0 /\ 0 <= f[1] /\ f[1] <= f[2]

\* ---------------------------------------------------------------- claims
\* C1 (identity): when the two normalized texts are the same text of at least N_GRAM
\* bytes, the computed intersection equals the computed union, the union is positive
\* and the score is 1.0.
C1_Identity ==
    (Calculated /\ CStr(original_text) = CStr(plagiarized_text)
                /\ strlen(original_text) >= N_GRAM)
        => (similarity = <<1, 1>> /\ intersection = union_total /\ union_total > 0)

C1_Witness ==
    /\ Calculated
    /\ CStr(original_text) = CStr(plagiarized_text)
    /\ strlen(original_text) > N_GRAM
    /\ \E i \in DOMAIN ht_original : Len(ht_original[i]) >= 2
    /\ similarity = <<1, 1>>

\* C2 (symmetry): computing the similarity with the two tables swapped gives the same
\* intersection, the same union and the same score as the computation main performed.
C2_Symmetry ==
    Calculated =>
        LET r == calculate_jaccard_similarity(ht_plagiarized, ht_original)
        IN  /\ r.intersection = intersection
            /\ r.union_total = union_total
            /\ r.result = similarity

C2_Witness ==
    /\ Calculated
    /\ intersection > 0
    /\ \E i \in DOMAIN ht_original : Len(ht_original[i]) >= 2
    /\ \E k \in Keys(ht_original) \cap Keys(ht_plagiarized) :
           CountOf(ht_original, k) # CountOf(ht_plagiarized, k)
    /\ Keys(ht_original) \ Keys(ht_plagiarized) # {}

\* C3 (range): the score lies in [0.0, 1.0]; 0 <= intersection <= min(total(A), total(B)),
\* intersection <= union = total(A) + total(B) - intersection, and when the union is 0
\* the score is the constant 0.0 rather than the result of a division.
C3_Range ==
    Calculated =>
        /\ InUnitRange(similarity)
        /\ 0 <= intersection
        /\ intersection <= Min(Total(ht_original), Total(ht_plagiarized))
        /\ intersection <= union_total
        /\ union_total = Total(ht_original) + Total(ht_plagiarized) - intersection
        /\ (union_total = 0 => similarity = <<0, 1>>)

C3_Witness ==
    /\ Calculated
    /\ 0 < intersection
    /\ intersection < Min(Total(ht_original), Total(ht_plagiarized))
    /\ similarity[1] < similarity[2]

C3_WitnessEmpty == Calculated /\ union_total = 0 /\ similarity = <<0, 1>>

\* the ShingleSet invariant of one table against the text it was built from
ShingleSetOf(ht, text) ==
    /\ \A w \in Windows(text) :
          /\ Cardinality({e \in Entries(ht) : CStr(EntryNode(ht, e).gram) = w}) = 1
          /\ CountOf(ht, w) = Occurrences(text, w)
    /\ \A e \in Entries(ht) : CStr(EntryNode(ht, e).gram) \in Windows(text)
    /\ Total(ht) = Max(0, Len(text) - N_GRAM + 1)

\* C4 (ShingleSet invariant): after generate_ngrams on an empty table every distinct
\* N_GRAM-byte substring of the text is held by exactly one node, whose count is the
\* number of window offsets at which the substring occurs; no node holds a string that
\* does not occur in the text; the counts sum to max(0, len - N_GRAM + 1).  This also
\* holds when distinct shingles share a bucket.
C4_ShingleSet ==
    /\ (pc \in {"generate_plagiarized", "calculate", "open_output"}
            => ShingleSetOf(ht_original, CStr(original_text)))
    /\ (pc \in {"calculate", "open_output"}
            => ShingleSetOf(ht_plagiarized, CStr(plagiarized_text)))

C4_Witness ==
    /\ pc = "generate_plagiarized"
    /\ \E i \in DOMAIN ht_original : Len(ht_original[i]) >= 2
    /\ Cardinality(DOMAIN ht_original) >= 2

\* C5 (intersection and union): the intersection is the sum, over the keys present in
\* both tables, of the smaller of the two counts; keys of one table only add nothing, so
\* texts without a common n-gram score 0.0; the union is total(A) + total(B) minus the
\* intersection.
C5_Intersection ==
    Calculated =>
        /\ intersection = SumOfMins(Keys(ht_original) \cap Keys(ht_plagiarized),
                                    ht_original, ht_plagiarized)
        /\ union_total = Total(ht_original) + Total(ht_plagiarized) - intersection
        /\ (Windows(CStr(original_text)) \cap Windows(CStr(plagiarized_text)) = {}
                => (intersection = 0 /\ similarity = <<0, 1>>))

C5_Witness ==
    /\ Calculated
    /\ \E k \in Keys(ht_original) \cap Keys(ht_plagiarized) :
           /\ CountOf(ht_original, k) >= 2
           /\ CountOf(ht_plagiarized, k) < CountOf(ht_original, k)
    /\ Keys(ht_original) \ Keys(ht_plagiarized) # {}
    /\ Keys(ht_plagiarized) \ Keys(ht_original) # {}

C5_WitnessDisjoint ==
    /\ Calculated
    /\ Keys(ht_original) # {} /\ Keys(ht_plagiarized) # {}
    /\ Keys(ht_original) \cap Keys(ht_plagiarized) = {}
    /\ similarity = <<0, 1>>

\* C7 (short texts): a text shorter than N_GRAM bytes leaves its table empty; when at
\* least one text is that short the score is 0.0: with union 0 when both are, and with
\* intersection 0 and union equal to the total of the other table otherwise.
C7_ShortText ==
    LET lenA == strlen(original_text)
        lenB == strlen(plagiarized_text)
    IN  /\ (TablesBuilt /\ lenA < N_GRAM) => Entries(ht_original) = {}
        /\ (TablesBuilt /\ lenB < N_GRAM) => Entries(ht_plagiarized) = {}
        /\ (Calculated /\ (lenA < N_GRAM \/ lenB < N_GRAM)) =>
              /\ similarity = <<0, 1>>
              /\ intersection = 0
              /\ (lenA < N_GRAM /\ lenB < N_GRAM) => union_total = 0
              /\ (lenA >= N_GRAM) => union_total = lenA - N_GRAM + 1
              /\ (lenB >= N_GRAM) => union_total = lenB - N_GRAM + 1

C7_Witness ==
    /\ Calculated
    /\ strlen(original_text) = N_GRAM - 1
    /\ strlen(plagiarized_text) > N_GRAM
    /\ union_total > 0

C7_WitnessBoth ==
    /\ Calculated
    /\ strlen(original_text) = 0
    /\ strlen(plagiarized_text) = N_GRAM - 1
    /\ union_total = 0

\* what the claim asks of normalization: every byte of the content, in order, with
\* A-Z folded, ASCII alphanumerics, spaces and bytes >= 0x80 kept, the rest dropped
FoldByte(c) == IF c >= 65 /\ c <= 90 THEN c + 32 ELSE c

KeptByClaim(c) ==
    \/ (c >= 48 /\ c <= 57) \/ (c >= 97 /\ c <= 122) \/ c = 32 \/ c >= 128

NormalizedContent(bytes) ==
    SelectSeq([i \in 1..Len(bytes) |-> FoldByte(bytes[i])], KeptByClaim)

\* C6 (normalization is total over byte buffers): after to_lower_case and
\* remove_punctuation the text is the whole content of the buffer, zero bytes included
\* among the dropped ones, folded and filtered; no kept byte after a dropped byte is lost.
C6_NormalizationTotal ==
    pc = "create_tables" =>
        /\ CStr(original_text) = NormalizedContent(origFile.data)
        /\ CStr(plagiarized_text) = NormalizedContent(plagFile.data)

\* C8 (exit codes): main returns 1 exactly when the argument count is wrong or an input
\* file cannot be opened or the output file cannot be created; otherwise it returns 0
\* with the score line written; it returns nothing else.
C8_ExitCode ==
    LET failure == argc # 4 \/ ~origFile.ok \/ ~plagFile.ok \/ ~outCreatable
    IN  /\ (pc = "exit") <=> (exitCode # -1)
        /\ exitCode \in {-1, 0, 1}
        /\ (exitCode = 1) => failure
        /\ (exitCode = 0) => (~failure /\ outFile = [state |-> "written", score |-> similarity])
        /\ (outFile.state = "written") => pc \in {"free_original", "free_plagiarized", "return", "exit"}

C8_Witness ==
    /\ pc = "exit" /\ exitCode = 0
    /\ outFile = [state |-> "written", score |-> <<1, 1>>]
    /\ origFile.data # plagFile.data

C8_WitnessFail == pc = "exit" /\ exitCode = 1 /\ argc = 4 /\ origFile.ok /\ ~plagFile.ok

C10_OrderAndCleanup ==
    /\ (outFile.state # "untouched") =>
          /\ pc \in {"write_output", "free_original", "free_plagiarized", "return", "exit"}
          /\ argc = 4 /\ origFile.ok /\ plagFile.ok
          /\ original_text # <<>> /\ plagiarized_text # <<>>
          /\ created
          /\ similarity = calculate_jaccard_similarity(ht_original, ht_plagiarized).result
    /\ (pc = "exit" /\ (argc # 4 \/ ~origFile.ok \/ ~plagFile.ok)) =>
          (outFile.state = "untouched" /\ ~created)
    /\ (pc = "exit" /\ created) => (freed["original"] = 1 /\ freed["plagiarized"] = 1)
    /\ ~created => (freed["original"] = 0 /\ freed["plagiarized"] = 0)
    /\ freed["original"] <= 1 /\ freed["plagiarized"] <= 1
    /\ ~useAfterFree

C10_Witness ==
    /\ pc = "exit" /\ exitCode = 1
    /\ created
    /\ freed["original"] = 1 /\ freed["plagiarized"] = 1
    /\ outFile.state = "untouched"

C10_WitnessSuccess == pc = "exit" /\ exitCode = 0 /\ freed["original"] = 1

====
